---- MODULE Spec2Model ----
(***************************************************************************)
(* A model of img2dataset's asyncio downloader                             *)
(* (src/img2dataset/async_downloader.py): the per-shard pipeline of gated  *)
(* fetchers feeding one consumer through an asyncio.Queue, the shard       *)
(* runner around it, and the key codec compute_key.                        *)
(*                                                                         *)
(* Python's None is the string "None".  The tasks of one shard run on one  *)
(* asyncio event loop, so a task runs without interruption from one await  *)
(* that suspends to the next: each action below is one such stretch.       *)
(***************************************************************************)
EXTENDS Integers, Sequences, FiniteSets, TLC

\* ---------------------------------------------------------------- bounds
MaxRows == 2
MaxThreads == 2
MaxRetries == 2
MaxSamplesPerShard == 11
MaxShardWidth == 1
MaxShardId == 11
MaxLocalKey == 11
MaxHeaderValues == 2
MaxHeaderChars == 4
MaxPolicyRows == 1
MaxPolicyRetries == 1

\* The key slot of the sentinel ("finish", "finish", "finish") of line 211.
\* TLC cannot compare an integer key with a string, so the string "finish"
\* in the key slot is the reserved non-key -1.
FINISH == -1

None == "None"

\* What one HTTP exchange can end as: the body is read, or the transport
\* raises.  str(err) of the n-th attempt of a row is the text "error n", so
\* that the attempt an error description comes from can be told.
Responses == {"body", "error"}

ErrText(n) == "error " \o ToString(n)

ErrTexts == {ErrText(n) : n \in 1 .. (MaxRetries + 1)}

\* What the resizer returns as its error_message, and the label it is counted under.
ResizeResults == {"ok", "resize_error"}

\* Where an unexpected exception is raised while the consumer handles one item.
Faults == {"none", "meta", "resizer", "increment", "hash", "write"}

\* The fixed error text of a policy rejection (line 55).
PolicyMessage == "Use of image disallowed by X-Robots-Tag directive"

\* Responses, and further ones: a response whose X-Robots-Tag names a bot
\* ("A:b") or no bot ("b"), a transport exception whose str() is empty, and
\* an exception raised after the body was read into img_stream.
PolicyResponses ==
    Responses \cup {"tagged", "tagged_all", "empty_error", "late_error"}

StatusLabels == ErrTexts \cup {"", PolicyMessage, "resize_error", "success"}

VARIABLES
    \* configuration and shard source
    thread_count, retries, count, shard_id, shard_exists,
    number_sample_per_shard, oom_shard_count, oom_sample_per_shard,
    \* download_shard / __call__ control
    phase, shard_error, call_state, call_value,
    \* the pipeline of run()
    sem_value, fetch_pc, result, hist, requests, streams, consulted,
    body_reads,
    queue, unfinished, put_log, got_log, download_pc, save_pc,
    \* consumer-side tallies and collaborators
    successes, failed_to_download, failed_to_resize, status_dict,
    written, writer_state, writes_after_close, stats, exc_keys, exc_faults,
    \* the key codec exercised on its own
    key_call,
    \* the policy filter: its configuration, and a call of it on its own
    user_agent_token, disallowed_header_directives, robots_call

vars == <<thread_count, retries, count, shard_id, shard_exists,
          number_sample_per_shard, oom_shard_count, oom_sample_per_shard,
          phase, shard_error, call_state, call_value,
          sem_value, fetch_pc, result, hist, requests, streams, consulted,
          body_reads,
          queue, unfinished, put_log, got_log, download_pc, save_pc,
          successes, failed_to_download, failed_to_resize, status_dict,
          written, writer_state, writes_after_close, stats, exc_keys, exc_faults,
          key_call, user_agent_token, disallowed_header_directives, robots_call>>

configVars == <<thread_count, retries, count, shard_id,
                number_sample_per_shard, oom_shard_count,
                user_agent_token, disallowed_header_directives>>
fetchVars == <<sem_value, fetch_pc, result, hist, requests, streams,
               consulted, body_reads>>
queueVars == <<queue, unfinished, put_log, got_log>>
tallyVars == <<successes, failed_to_download, failed_to_resize, status_dict>>
writerVars == <<written, writer_state, writes_after_close>>

Keys == 0 .. (count - 1)

\* ------------------------------------------------------------ key codec
RECURSIVE Pow10(_)
Pow10(n) == IF n = 0 THEN 1 ELSE 10 * Pow10(n - 1)

\* str(n) for n >= 0: the decimal digits, most significant first; "0" for 0.
RECURSIVE Digits(_)
Digits(n) == IF n < 10 THEN <<n>> ELSE Append(Digits(n \div 10), n % 10)

RECURSIVE Zeros(_)
Zeros(n) == IF n <= 0 THEN <<>> ELSE <<0>> \o Zeros(n - 1)

\* Variant: the width is exact; digits beyond it are dropped from the left.
FormatTruncated(n, width) ==
    LET padded == Zeros(width - Len(Digits(n))) \o Digits(n)
    IN  SubSeq(padded, Len(padded) - width + 1, Len(padded))

\* "{:0{width}d}".format(n): width is a minimum; a longer number is kept whole.
FormatZeroPadded(n, width) == Zeros(width - Len(Digits(n))) \o Digits(n)

\* Variant: the shard id shifted by the shard-count width instead.
compute_key_swapped(key, shard, oom_sample, oom_shard) ==
    FormatZeroPadded(Pow10(oom_shard) * shard + key, oom_sample + oom_shard)

\* Lines 76-82: the combined integer, zero-padded to the two widths.
compute_key(key, shard, oom_sample, oom_shard) ==
    LET true_key == Pow10(oom_sample) * shard + key
        key_format == oom_sample + oom_shard
    IN  FormatZeroPadded(true_key, key_format)

\* math.ceil(math.log10(n)) for n >= 1: the least w with 10^w >= n (the
\* floating-point value agrees with it for every n <= 10^15).
RECURSIVE CeilLog10From(_, _)
CeilLog10From(n, w) == IF Pow10(w) >= n THEN w ELSE CeilLog10From(n, w + 1)

SampleWidth(n) == CeilLog10From(n, 0)

\* -------------------------------------------------------- policy filter
\* A text is a sequence of one-character strings.  Header values are texts
\* over this alphabet.
HeaderChars == {"a", "A", "b", " ", ":", ","}

\* The user_agent_token None: a text no header can spell.
NoToken == <<None>>

\* The disallowed_header_directives None: a set no directive text is in.
\* (x in None raises TypeError inside the try of line 22; the except of
\* line 30 swallows it and the loop goes on, so no directive matches.)
NoDirectives == {<<None>>}

LowerChar(c) == IF c = "A" THEN "a" ELSE c

\* str.lower()
RECURSIVE LowerStr(_)
LowerStr(s) == IF s = <<>> THEN <<>> ELSE <<LowerChar(Head(s))>> \o LowerStr(Tail(s))

RECURSIVE LStrip(_)
LStrip(s) == IF s # <<>> /\ Head(s) = " " THEN LStrip(Tail(s)) ELSE s

RECURSIVE RStrip(_)
RStrip(s) ==
    IF s # <<>> /\ s[Len(s)] = " " THEN RStrip(SubSeq(s, 1, Len(s) - 1)) ELSE s

\* str.strip()
Strip(s) == RStrip(LStrip(s))

\* The position of the first sep in s, 0 when there is none.
FirstIndex(s, sep) ==
    IF \E i \in 1 .. Len(s) : s[i] = sep
    THEN CHOOSE i \in 1 .. Len(s) :
             s[i] = sep /\ \A j \in 1 .. (i - 1) : s[j] # sep
    ELSE 0

\* s.split(sep, 1): at most two pieces, cut at the first sep.
SplitOnce(s, sep) ==
    LET i == FirstIndex(s, sep)
    IN  IF i = 0 THEN <<s>>
        ELSE <<SubSeq(s, 1, i - 1), SubSeq(s, i + 1, Len(s))>>

\* s.split(sep): every piece.
RECURSIVE SplitAll(_, _)
SplitAll(s, sep) ==
    LET i == FirstIndex(s, sep)
    IN  IF i = 0 THEN <<s>>
        ELSE <<SubSeq(s, 1, i - 1)>> \o SplitAll(SubSeq(s, i + 1, Len(s)), sep)

\* Lines 23-28 for one value of the header: the directives are trimmed and
\* lower-cased, the token is lower-cased.
ValueMatches(values, token, disallowed) ==
    LET uatoken_directives == SplitOnce(values, ":")
        pieces == SplitAll(uatoken_directives[Len(uatoken_directives)], ",")
        directives == {LowerStr(Strip(pieces[i])) : i \in 1 .. Len(pieces)}
        ua_token == IF Len(uatoken_directives) = 2
                    THEN LowerStr(uatoken_directives[1]) ELSE NoToken
    IN  /\ ua_token = NoToken \/ ua_token = token
        /\ \E x \in directives : x \in disallowed

\* Lines 19-33: true as soon as one value of X-Robots-Tag matches.
is_disallowed(headers, token, disallowed) ==
    \E i \in 1 .. Len(headers) : ValueMatches(headers[i], token, disallowed)

\* Line 120: __init__ trims and lower-cases the configured token.
NormToken(token) == IF token = NoToken THEN NoToken ELSE LowerStr(Strip(token))

\* Lines 121-125: and each configured directive.
NormDirectives(directives) ==
    IF directives = NoDirectives THEN NoDirectives
    ELSE {LowerStr(Strip(d)) : d \in directives}

\* The values __init__ may be handed.
TokenArgs == {NoToken, <<"A", " ">>, <<"b">>}

DirectiveArgs == {NoDirectives, {}, {<<"b">>}, {<<" ", "A">>, <<"b">>}}

NoRobotsCall == [headers |-> <<>>, result |-> FALSE, done |-> FALSE]

\* ------------------------------------------------------------- fetcher
\* The X-Robots-Tag values a response carries.
HeadersOf(resp) ==
    IF resp = "tagged" THEN <<<<"A", ":", "b">>>>
    ELSE IF resp = "tagged_all" THEN <<<<"b">>>>
    ELSE <<>>

\* session.get returned a response (it did not raise).
GotHeaders(resp) == resp \notin {"error", "empty_error"}

\* Variant: any directive set but None has the filter called.
ConsultsIfSet(disallowed) == disallowed # NoDirectives

\* Line 50: the truth value of disallowed_header_directives; None and the
\* empty set are false, and is_disallowed is then not called.
Consults(disallowed) == disallowed # NoDirectives /\ disallowed # {}

\* Lines 50-55: the filter was called and matched.
Rejected(resp, token, disallowed) ==
    /\ GotHeaders(resp)
    /\ Consults(disallowed)
    /\ is_disallowed(HeadersOf(resp), token, disallowed)

\* Line 56: resp.read() was reached.
BodyRead(resp, token, disallowed) ==
    GotHeaders(resp) /\ ~Rejected(resp, token, disallowed)

\* str(err) of the exception an attempt ends with.
ErrorOf(resp, attempt) == IF resp = "empty_error" THEN "" ELSE ErrText(attempt)

\* Variant: a rejection hands the body over along with the message.
download_image_keeps_body(key, resp, attempt, token, disallowed) ==
    IF ~GotHeaders(resp) \/ resp = "late_error"
    THEN [key |-> key, img_stream |-> None,
          error_message |-> ErrorOf(resp, attempt)]
    ELSE [key |-> key, img_stream |-> "stream",
          error_message |-> IF Rejected(resp, token, disallowed)
                            THEN PolicyMessage ELSE None]

\* download_image: one attempt, as the triple it returns.
download_image(key, resp, attempt, token, disallowed) ==
    IF ~GotHeaders(resp)
    THEN [key |-> key, img_stream |-> None,
          error_message |-> ErrorOf(resp, attempt)]
    ELSE IF Rejected(resp, token, disallowed)
    THEN [key |-> key, img_stream |-> None, error_message |-> PolicyMessage]
    ELSE IF resp = "late_error"
    THEN [key |-> key, img_stream |-> None,
          error_message |-> ErrorOf(resp, attempt)]
    ELSE [key |-> key, img_stream |-> "stream", error_message |-> None]

\* The payload stream of a row after an attempt: open when it is handed
\* on, closed by lines 60-61 when the attempt raised after making it.
StreamAfter(old, resp, new) ==
    IF new.img_stream # None THEN "open"
    ELSE IF resp = "late_error" /\ new.error_message # PolicyMessage THEN "closed"
    ELSE old

NoResult == [key |-> FINISH, img_stream |-> None, error_message |-> None]

Sentinel == [key |-> FINISH, img_stream |-> "finish", error_message |-> "finish"]

IsSentinel(item) ==
    /\ item.key = FINISH
    /\ item.img_stream = "finish"
    /\ item.error_message = "finish"

\* The loop of download_image_with_retry ends after this attempt.
LoopEnds(res, attempts) == res.img_stream # None \/ attempts = retries + 1

\* Variant: a failed attempt does not overwrite an earlier failure.
KeepFirstFailure(old, new) ==
    IF old.key # FINISH /\ new.img_stream = None THEN old ELSE new

\* The triple the loop variables hold after an attempt: the latest one.
LoopResult(old, new) == new

\* Variant: admission without a free slot.
GateAlwaysOpen == TRUE

\* async with semaphore: admission needs a free slot.
GateOpen == sem_value > 0

\* Variant: the slot is not given back.
SlotKept(v) == v

\* Leaving the async with block gives the slot back.
Release(v) == v + 1

\* ------------------------------------------------------ initial states
ZeroCounter == [l \in StatusLabels |-> 0]

NoCall == [local_key |-> 0, shard |-> 0, str_key |-> <<>>, done |-> FALSE]

\* Before a shard run starts: nothing of the pipeline exists yet.
PipelineIdle ==
    /\ phase = "start"
    /\ shard_error = "none"
    /\ call_state = "running"
    /\ call_value = [ok |-> FALSE, row |-> <<>>]
    /\ sem_value = 0
    /\ fetch_pc = [k \in Keys |-> "new"]
    /\ result = [k \in Keys |-> NoResult]
    /\ hist = [k \in Keys |-> <<>>]
    /\ requests = [k \in Keys |-> 0]
    /\ streams = [k \in Keys |-> "none"]
    /\ consulted = [k \in Keys |-> 0]
    /\ body_reads = [k \in Keys |-> 0]
    /\ queue = <<>>
    /\ unfinished = 0
    /\ put_log = <<>>
    /\ got_log = <<>>
    /\ download_pc = "new"
    /\ save_pc = "new"
    /\ successes = 0
    /\ failed_to_download = 0
    /\ failed_to_resize = 0
    /\ status_dict = ZeroCounter
    /\ written = <<>>
    /\ writer_state = "none"
    /\ writes_after_close = 0
    /\ stats = <<>>
    /\ exc_keys = {}
    /\ exc_faults = {}

\* AsyncDownloader.__init__ and the shard handed to __call__.
Init ==
    /\ thread_count \in 1 .. MaxThreads
    /\ retries \in 0 .. MaxRetries
    /\ count \in 0 .. MaxRows
    /\ shard_id = 1
    /\ shard_exists = TRUE
    /\ number_sample_per_shard = 10
    /\ oom_shard_count = 1
    /\ oom_sample_per_shard = 0
    /\ user_agent_token = NoToken
    /\ disallowed_header_directives = NoDirectives
    /\ key_call = NoCall
    /\ robots_call = NoRobotsCall
    /\ PipelineIdle

ShardRow == <<shard_id, "shard_file">>

\* ------------------------------------------------- download_shard, setup
\* An exception leaves download_shard: nothing after the raising line runs.
Raise(cause) ==
    /\ phase' = "raised"
    /\ shard_error' = cause

\* Lines 149-182: read the shard, select the columns, find the url column.
LoadShard(err) ==
    /\ phase = "start"
    /\ IF err = "none"
       THEN phase' = "loaded" /\ UNCHANGED shard_error
       ELSE Raise(err)
    /\ UNCHANGED <<configVars, shard_exists, oom_sample_per_shard, call_state,
                   call_value, fetchVars, queueVars, download_pc, save_pc,
                   tallyVars, writerVars, stats, exc_keys, exc_faults,
                   key_call,
                   robots_call>>

\* Lines 185-193: construct the writer, derive the per-shard digit width.
MakeWriter(ok) ==
    /\ phase = "loaded"
    /\ IF ok
       THEN /\ phase' = "ready"
            /\ writer_state' = "open"
            /\ oom_sample_per_shard' = SampleWidth(number_sample_per_shard)
            /\ UNCHANGED shard_error
       ELSE /\ Raise("writer")
            /\ UNCHANGED <<writer_state, oom_sample_per_shard>>
    /\ UNCHANGED <<configVars, shard_exists, call_state, call_value, fetchVars,
                   queueVars, download_pc, save_pc, tallyVars, written,
                   writes_after_close, stats, exc_keys, exc_faults,
                   key_call,
                   robots_call>>

\* Lines 318-321: run() makes the semaphore and the queue, schedules
\* download_task and enters save_task, which suspends in data_queue.get().
StartRun ==
    /\ phase = "ready"
    /\ phase' = "running"
    /\ sem_value' = thread_count
    /\ download_pc' = "scheduled"
    /\ save_pc' = "loop"
    /\ UNCHANGED <<configVars, shard_exists, oom_sample_per_shard, shard_error,
                   call_state, call_value, fetch_pc, result, hist, requests,
                   streams, consulted, body_reads, queueVars, tallyVars,
                   writerVars, stats, exc_keys, exc_faults,
                   key_call,
                   robots_call>>

\* Lines 196-210: download_task opens the session and gathers one
\* download_image_with_retry task per row.
StartDownloadTask ==
    /\ phase = "running"
    /\ download_pc = "scheduled"
    /\ download_pc' = "gather"
    /\ fetch_pc' = [k \in Keys |-> "waiting"]
    /\ UNCHANGED <<configVars, shard_exists, oom_sample_per_shard, phase,
                   shard_error, call_state, call_value, sem_value, result, hist,
                   requests, streams, consulted, body_reads, queueVars, save_pc,
                   tallyVars, writerVars,
                   stats, exc_keys, exc_faults, key_call,
                   robots_call>>

\* ------------------------------------------------------------ fetchers
shardVars == <<shard_exists, oom_sample_per_shard, phase, shard_error,
               call_state, call_value, stats, key_call, robots_call>>
consumerVars == <<save_pc, tallyVars, writerVars, exc_keys, exc_faults>>

\* Line 68 then line 70: the task is admitted by the semaphore and issues
\* its first request (session.get is the next point where it suspends).
Acquire(k) ==
    /\ phase = "running"
    /\ fetch_pc[k] = "waiting"
    /\ GateOpen
    /\ sem_value' = sem_value - 1
    /\ fetch_pc' = [fetch_pc EXCEPT ![k] = "fetching"]
    /\ requests' = [requests EXCEPT ![k] = @ + 1]
    /\ UNCHANGED <<configVars, shardVars, consumerVars, queueVars, result, hist,
                   streams, consulted, body_reads, download_pc>>

\* Variant: a failure is not handed over.
PutOnSuccess(q, item) == IF item.img_stream = None THEN q ELSE Append(q, item)

\* queue.put(item) on the unbounded asyncio.Queue: the item joins the tail.
Put(q, item) == Append(q, item)

\* Lines 69-73: one download_image returns.  Either the loop goes round and
\* the next request is issued, or the loop ends: the triple is put on the
\* (unbounded, so never blocking) queue and the slot is released.
Response(k, resp) ==
    /\ phase = "running"
    /\ fetch_pc[k] = "fetching"
    /\ LET attempts == Len(hist[k]) + 1
           new == download_image(k, resp, attempts, user_agent_token,
                                 disallowed_header_directives)
           res == LoopResult(result[k], new)
       IN  /\ hist' = [hist EXCEPT ![k] = Append(@, resp)]
           /\ result' = [result EXCEPT ![k] = res]
           /\ streams' = [streams EXCEPT ![k] = StreamAfter(@, resp, new)]
           /\ consulted' = [consulted EXCEPT ![k] = @ +
                  (IF GotHeaders(resp) /\ Consults(disallowed_header_directives)
                   THEN 1 ELSE 0)]
           /\ body_reads' = [body_reads EXCEPT ![k] = @ +
                  (IF BodyRead(resp, user_agent_token,
                               disallowed_header_directives) THEN 1 ELSE 0)]
           /\ IF LoopEnds(new, attempts)
              THEN /\ queue' = Put(queue, res)
                   /\ put_log' = Put(put_log, res)
                   /\ unfinished' = unfinished + 1
                   /\ sem_value' = Release(sem_value)
                   /\ fetch_pc' = [fetch_pc EXCEPT ![k] = "done"]
                   /\ UNCHANGED requests
              ELSE /\ requests' = [requests EXCEPT ![k] = @ + 1]
                   /\ UNCHANGED <<queue, put_log, unfinished, sem_value, fetch_pc>>
    /\ UNCHANGED <<configVars, shardVars, consumerVars, got_log, download_pc>>

\* Variant: the gather is not awaited.
GatherNotAwaited == TRUE

\* await asyncio.gather(*all_task) has returned.
GatherDone == \A k \in Keys : fetch_pc[k] = "done"

\* data_queue.join(): returns at once when nothing is unacknowledged,
\* otherwise waits for task_done to bring the count to zero.
JoinState(n) == IF n = 0 THEN "joined" ELSE "joining"

\* Lines 210-212: after the gather, put the sentinel and join the queue.
FinishGather ==
    /\ phase = "running"
    /\ download_pc = "gather"
    /\ GatherDone
    /\ queue' = Put(queue, Sentinel)
    /\ put_log' = Put(put_log, Sentinel)
    /\ unfinished' = unfinished + 1
    /\ download_pc' = JoinState(unfinished + 1)
    /\ UNCHANGED <<configVars, shardVars, consumerVars, fetchVars, got_log>>

\* ------------------------------------------------------------- consumer
sample_data(k) == [url |-> <<"url", k>>, caption |-> <<"caption", k>>]

Bump(counter, label) == [counter EXCEPT ![label] = @ + 1]

\* Variant: the resize-failure branch falls through to the success tally.
TallyFallsThrough(path, name) ==
    IF path = name \/ (path = "failed_to_resize" /\ name = "success") THEN 1 ELSE 0

\* What one item adds to the tally called name: each branch adds one to its
\* own tally and leaves the loop body (continue) before the next branch.
Tally(path, name) == IF path = name THEN 1 ELSE 0

\* Which branch of the loop body an item takes.
Path(item, rz, fault) ==
    IF fault = "meta" THEN "raised"
    ELSE IF item.error_message # None THEN "failed_to_download"
    ELSE IF fault = "resizer" THEN "raised"
    ELSE IF rz # "ok" THEN "failed_to_resize"
    ELSE "success"

\* The label status_dict.increment is called with on that branch.
Label(item, rz, path) ==
    IF path = "failed_to_download" THEN item.error_message
    ELSE IF path = "failed_to_resize" THEN rz
    ELSE "success"

\* status_dict.increment returned (it follows the tally's += 1).
Incremented(path, fault) == path # "raised" /\ fault # "increment"

\* The hash computation of line 294 returned or was not reached.
HashPassed(path, fault) == ~(path = "success" /\ fault = "hash")

\* Variant: the failure branches do not write.
WroteOnlySuccess(path, fault) ==
    /\ path = "success"
    /\ fault \notin {"increment", "hash", "write"}

\* sample_writer.write was reached and returned.
Wrote(path, fault) ==
    /\ Incremented(path, fault)
    /\ HashPassed(path, fault)
    /\ fault # "write"

\* img_stream.close() was reached: after the write on the resize-failure
\* branch (line 271), before it on the success branch (line 301).
Closed(path, fault) ==
    \/ path = "failed_to_resize" /\ Wrote(path, fault)
    \/ path = "success" /\ Incremented(path, fault) /\ HashPassed(path, fault)

\* The except clause of line 310 ran.
Caught(path, fault) ==
    \/ ~Incremented(path, fault)
    \/ ~HashPassed(path, fault)
    \/ fault = "write"

\* Variant: the row is taken by the position at which the outcome arrived.
RecordByPosition(item, rz, path) ==
    [key |-> compute_key(Len(got_log), shard_id, oom_sample_per_shard,
                         oom_shard_count),
     row |-> sample_data(Len(got_log)),
     status |-> path,
     error_message |-> IF path = "failed_to_resize" THEN rz ELSE item.error_message,
     img |-> IF path = "success" THEN "img" ELSE None]

\* Lines 221-235 and the write of each branch: the record handed to the
\* writer is built from the row and the key the outcome's local key names.
Record(item, rz, path) ==
    [key |-> compute_key(item.key, shard_id, oom_sample_per_shard, oom_shard_count),
     row |-> sample_data(item.key),
     status |-> path,
     error_message |-> IF path = "failed_to_resize" THEN rz ELSE item.error_message,
     img |-> IF path = "success" THEN "img" ELSE None]

\* Variant: the acknowledgment is skipped when the except clause ran.
AckedUnlessCaught(path, fault) == IF Caught(path, fault) THEN 0 ELSE 1

\* Line 314: task_done() is in the finally clause, so every way out of the
\* try block (continue, falling off the end, a caught exception) makes one.
Acked(path, fault) == 1

\* data_queue.task_done() wakes a join() that waits once the count is zero.
AfterTaskDone(pc, n) == IF pc = "joining" /\ n = 0 THEN "joined" ELSE pc

\* Line 217: data_queue.get() has an item to return.
GetReady == save_pc = "loop" /\ queue # <<>>

\* Lines 217-314 for one real outcome: the loop body has no await, so it
\* runs from the get to the task_done in one stretch.
ConsumeItem(rz, fault) ==
    /\ phase = "running"
    /\ GetReady
    /\ ~IsSentinel(Head(queue))
    /\ LET item == Head(queue)
           path == Path(item, rz, fault)
           label == Label(item, rz, path)
       IN  /\ queue' = Tail(queue)
           /\ got_log' = Append(got_log, item)
           /\ failed_to_download' = failed_to_download + Tally(path, "failed_to_download")
           /\ failed_to_resize' = failed_to_resize + Tally(path, "failed_to_resize")
           /\ successes' = successes + Tally(path, "success")
           /\ status_dict' = IF Incremented(path, fault)
                             THEN Bump(status_dict, label) ELSE status_dict
           /\ written' = IF Wrote(path, fault)
                         THEN Append(written, Record(item, rz, path)) ELSE written
           /\ writes_after_close' = writes_after_close +
                  (IF Wrote(path, fault) /\ writer_state = "closed" THEN 1 ELSE 0)
           /\ streams' = IF Closed(path, fault)
                         THEN [streams EXCEPT ![item.key] = "closed"] ELSE streams
           /\ exc_keys' = IF Caught(path, fault)
                          THEN exc_keys \cup {item.key} ELSE exc_keys
           /\ exc_faults' = IF Caught(path, fault)
                            THEN exc_faults \cup {<<item.key, fault>>}
                            ELSE exc_faults
           /\ unfinished' = unfinished - Acked(path, fault)
           /\ download_pc' = AfterTaskDone(download_pc,
                                           unfinished - Acked(path, fault))
    /\ UNCHANGED <<configVars, shardVars, sem_value, fetch_pc, result, hist,
                   requests, consulted, body_reads, put_log, save_pc,
                   writer_state>>

\* Lines 217-219: the sentinel ends the loop; it is not acknowledged.
ConsumeSentinel ==
    /\ phase = "running"
    /\ GetReady
    /\ IsSentinel(Head(queue))
    /\ queue' = Tail(queue)
    /\ got_log' = Append(got_log, Head(queue))
    /\ save_pc' = "done"
    /\ UNCHANGED <<configVars, shardVars, fetchVars, unfinished, put_log,
                   download_pc, tallyVars, writerVars, exc_keys,
                   exc_faults>>

\* ------------------------------------------- download_shard, completion
pipelineVars == <<fetchVars, queueVars, save_pc, tallyVars, exc_keys,
                  exc_faults>>

\* asyncio.run cancels whatever task is still pending when run() is over.
CancelPending(pc) == IF pc \in {"scheduled", "gather", "joining"} THEN "cancelled" ELSE pc

\* Lines 321-324: save_task has returned; close the writer; run() is over.
CloseWriter(ok) ==
    /\ phase = "running"
    /\ save_pc = "done"
    /\ download_pc' = CancelPending(download_pc)
    /\ IF ok
       THEN /\ phase' = "closed"
            /\ writer_state' = "closed"
            /\ UNCHANGED shard_error
       ELSE /\ Raise("close")
            /\ UNCHANGED writer_state
    /\ UNCHANGED <<configVars, shard_exists, oom_sample_per_shard, call_state,
                   call_value, stats, key_call, robots_call, pipelineVars, written,
                   writes_after_close>>

\* Lines 326-338: write_stats.
WriteStats(ok) ==
    /\ phase = "closed"
    /\ IF ok
       THEN /\ phase' = "stats"
            /\ stats' = Append(stats, [count |-> count,
                                       successes |-> successes,
                                       failed_to_download |-> failed_to_download,
                                       failed_to_resize |-> failed_to_resize,
                                       status_dict |-> status_dict])
            /\ UNCHANGED shard_error
       ELSE /\ Raise("stats")
            /\ UNCHANGED stats
    /\ UNCHANGED <<configVars, shard_exists, oom_sample_per_shard, call_state,
                   call_value, key_call, robots_call, pipelineVars, writerVars, download_pc>>

\* Variant: the removal also runs after an exception.
RemovalInFinally == phase \in {"stats", "raised"} /\ shard_exists

\* fs.rm(shard_path) is the statement after write_stats.
RemovalReached == phase = "stats"

\* Line 339: remove the shard source.
RemoveShard(ok) ==
    /\ RemovalReached
    /\ IF ok
       THEN /\ phase' = "finished"
            /\ shard_exists' = FALSE
            /\ UNCHANGED shard_error
       ELSE /\ Raise("rm")
            /\ UNCHANGED shard_exists
    /\ UNCHANGED <<configVars, oom_sample_per_shard, call_state, call_value,
                   stats, key_call, robots_call, pipelineVars, writerVars, download_pc>>

\* Variant: only storage errors are caught.
HandlesOnlyIOError(cause) == cause \in {"unreadable", "rm"}

\* except Exception of line 135: every failure of the shard run is caught.
Handles(cause) == TRUE

\* Lines 132-138: what __call__ returns.
Outcome == [ok |-> phase = "finished", row |-> ShardRow]

\* Lines 128-138: __call__ is over.
CallReturn ==
    /\ call_state = "running"
    /\ phase \in {"finished", "raised"}
    /\ IF phase = "raised" /\ ~Handles(shard_error)
       THEN call_state' = "propagated" /\ UNCHANGED call_value
       ELSE call_state' = "returned" /\ call_value' = Outcome
    /\ UNCHANGED <<configVars, shard_exists, oom_sample_per_shard, phase,
                   shard_error, stats, key_call, robots_call, pipelineVars, writerVars,
                   download_pc>>

LoadErrors == {"none", "unreadable", "no_url_column"}

Next ==
    \/ \E err \in LoadErrors : LoadShard(err)
    \/ \E ok \in BOOLEAN : MakeWriter(ok)
    \/ StartRun
    \/ StartDownloadTask
    \/ \E k \in Keys : Acquire(k)
    \/ \E k \in Keys, resp \in Responses : Response(k, resp)
    \/ FinishGather
    \/ \E rz \in ResizeResults, fault \in Faults : ConsumeItem(rz, fault)
    \/ ConsumeSentinel
    \/ \E ok \in BOOLEAN : CloseWriter(ok)
    \/ \E ok \in BOOLEAN : WriteStats(ok)
    \/ \E ok \in BOOLEAN : RemoveShard(ok)
    \/ CallReturn

Spec == Init /\ [][Next]_vars

\* The event loop runs every task that is ready, and every awaited fetch
\* returns: a step that stays possible is eventually taken.
FairSpec == Spec /\ WF_vars(Next)

\* ------------------------------------------------- the key codec alone
\* The configuration of __init__ and the width line 193 derives from it.
KeyInit ==
    /\ number_sample_per_shard \in 1 .. MaxSamplesPerShard
    /\ oom_shard_count \in 0 .. MaxShardWidth
    /\ oom_sample_per_shard = SampleWidth(number_sample_per_shard)
    /\ thread_count = 1
    /\ retries = 0
    /\ count = 0
    /\ shard_id = 0
    /\ shard_exists = TRUE
    /\ user_agent_token = NoToken
    /\ disallowed_header_directives = NoDirectives
    /\ key_call = NoCall
    /\ robots_call = NoRobotsCall
    /\ PipelineIdle

\* Line 222: one call of compute_key.
ComputeKey(shard, key) ==
    /\ key_call' = [local_key |-> key, shard |-> shard, done |-> TRUE,
                    str_key |-> compute_key(key, shard, oom_sample_per_shard,
                                            oom_shard_count)]
    /\ UNCHANGED <<configVars, shard_exists, oom_sample_per_shard, phase,
                   shard_error, call_state, call_value, stats, pipelineVars,
                   writerVars, download_pc, robots_call>>

KeyNext == \E shard \in 0 .. MaxShardId, key \in 0 .. MaxLocalKey : ComputeKey(shard, key)

KeySpec == KeyInit /\ [][KeyNext]_vars

\* ------------------------------------------- the pipeline under a policy
\* A shard run with a token and a directive set configured, and responses
\* that carry X-Robots-Tag values.
PolicyInit ==
    /\ thread_count = 1
    /\ retries \in 0 .. MaxPolicyRetries
    /\ count \in 0 .. MaxPolicyRows
    /\ shard_id = 1
    /\ shard_exists = TRUE
    /\ number_sample_per_shard = 10
    /\ oom_shard_count = 1
    /\ oom_sample_per_shard = 0
    /\ \E token \in TokenArgs : user_agent_token = NormToken(token)
    /\ \E directives \in DirectiveArgs :
           disallowed_header_directives = NormDirectives(directives)
    /\ key_call = NoCall
    /\ robots_call = NoRobotsCall
    /\ PipelineIdle

PolicyNext ==
    \/ Next
    \/ \E k \in Keys, resp \in PolicyResponses \ Responses : Response(k, resp)

PolicySpec == PolicyInit /\ [][PolicyNext]_vars

\* ---------------------------------------------- the policy filter alone
RobotsInit ==
    /\ \E token \in TokenArgs : user_agent_token = NormToken(token)
    /\ \E directives \in DirectiveArgs :
           disallowed_header_directives = NormDirectives(directives)
    /\ thread_count = 1
    /\ retries = 0
    /\ count = 0
    /\ shard_id = 0
    /\ shard_exists = TRUE
    /\ number_sample_per_shard = 10
    /\ oom_shard_count = 1
    /\ oom_sample_per_shard = 0
    /\ key_call = NoCall
    /\ robots_call = NoRobotsCall
    /\ PipelineIdle

robotsIdle == <<configVars, shard_exists, oom_sample_per_shard, phase,
                shard_error, call_state, call_value, stats, pipelineVars,
                writerVars, download_pc, key_call>>

RECURSIVE TotalChars(_)
TotalChars(headers) ==
    IF headers = <<>> THEN 0 ELSE Len(Head(headers)) + TotalChars(Tail(headers))

\* The response carries one more X-Robots-Tag value.
AddValue ==
    /\ ~robots_call.done
    /\ Len(robots_call.headers) < MaxHeaderValues
    /\ robots_call' = [robots_call EXCEPT !.headers = Append(@, <<>>)]
    /\ UNCHANGED robotsIdle

\* The last value is one character longer.
AddChar(c) ==
    /\ ~robots_call.done
    /\ robots_call.headers # <<>>
    /\ TotalChars(robots_call.headers) < MaxHeaderChars
    /\ robots_call' = [robots_call EXCEPT
                           !.headers[Len(robots_call.headers)] = Append(@, c)]
    /\ UNCHANGED robotsIdle

\* Line 50: one call of is_disallowed on the response's headers.
CheckHeaders ==
    /\ robots_call' = [robots_call EXCEPT
                           !.result = is_disallowed(robots_call.headers,
                                                    user_agent_token,
                                                    disallowed_header_directives),
                           !.done = TRUE]
    /\ UNCHANGED robotsIdle

RobotsNext ==
    \/ AddValue
    \/ \E c \in HeaderChars : AddChar(c)
    \/ CheckHeaders

RobotsSpec == RobotsInit /\ [][RobotsNext]_vars

\* ------------------------------------------------------------- claims
Max(a, b) == IF a >= b THEN a ELSE b

Indices(log) == 1 .. Len(log)

\* The positions of the writer's log that hold a record of row k.
RecordsOf(k) == {i \in Indices(written) : written[i].row = sample_data(k)}

\* The positions of a queue log that hold an outcome of row k.
OutcomesOf(log, k) == {i \in Indices(log) : log[i].key = k}

SentinelsIn(log) == {i \in Indices(log) : IsSentinel(log[i])}

Fetching == {k \in Keys : fetch_pc[k] = "fetching"}

RECURSIVE SumOver(_, _)
SumOver(f, S) ==
    IF S = {} THEN 0
    ELSE LET x == CHOOSE y \in S : TRUE IN f[x] + SumOver(f, S \ {x})

\* C1: when the consumer loop has ended and no unexpected exception was
\* raised while an item was processed, the writer has received exactly one
\* record for each local key 0..N-1 and nothing else.
C1_OneRecordPerRow ==
    (save_pc = "done" /\ exc_keys = {}) =>
        /\ \A k \in Keys : Cardinality(RecordsOf(k)) = 1
        /\ Len(written) = count

\* Two rows, delivered out of row order, one written as a success and one
\* as a failed download.
C1_Witness ==
    /\ save_pc = "done"
    /\ exc_keys = {}
    /\ count = 2
    /\ Len(written) = 2
    /\ written[1].row = sample_data(1)
    /\ written[1].status = "success"
    /\ written[2].status = "failed_to_download"

\* C2: the run is not over (writer closed, stats emitted, source removed,
\* call returned) before every item put on the queue, the sentinel
\* included, is acknowledged and download_task's join() has returned.
C2_DrainedBeforeCompletion ==
    (phase \in {"closed", "stats", "finished"} \/ writer_state = "closed") =>
        (unfinished = 0 /\ download_pc = "joined")

\* The consumer waits on an empty queue only while a fetcher or
\* download_task can still take a step.
NoStuckConsumer ==
    (phase = "running" /\ save_pc = "loop" /\ queue = <<>>) =>
        ENABLED (\/ StartDownloadTask
                 \/ FinishGather
                 \/ \E k \in Keys : Acquire(k)
                 \/ \E k \in Keys, resp \in Responses : Response(k, resp))

\* C3: under fair scheduling every shard run ends: the consumer dequeues
\* the sentinel, the run goes on to close the writer and the call returns;
\* and the consumer never waits on an empty queue with no fetcher or
\* download_task step possible.
C3_Terminates ==
    /\ []NoStuckConsumer
    /\ (phase = "running") ~> (save_pc = "done")
    /\ (save_pc = "done") ~> (phase # "running")
    /\ <>(call_state = "returned")

\* More rows than slots: the consumer waits on an empty queue while one
\* fetcher holds the only slot and the other waits for it.
C3_Witness ==
    /\ phase = "running"
    /\ save_pc = "loop"
    /\ queue = <<>>
    /\ thread_count = 1
    /\ sem_value = 0
    /\ \E k \in Keys : fetch_pc[k] = "waiting"

\* C4: at most thread_count fetchers hold a slot, the slots held and free
\* add up to thread_count, and a fetcher not yet admitted has issued no
\* HTTP request.
C4_GateBound ==
    /\ Cardinality(Fetching) <= thread_count
    /\ phase = "running" => sem_value + Cardinality(Fetching) = thread_count
    /\ \A k \in Keys :
           fetch_pc[k] \in {"new", "waiting"} => (requests[k] = 0 /\ hist[k] = <<>>)

\* Both slots of two are held while a retry is in flight.
C4_Witness ==
    /\ thread_count = 2
    /\ Cardinality(Fetching) = 2
    /\ \E k \in Keys : requests[k] = 2

\* C5: a row is attempted at most retries + 1 times, never again after an
\* attempt gave a payload, and exactly retries + 1 times when every attempt
\* fails; the outcome enqueued is the payload of the first successful
\* attempt, or else the error text of the last attempt, and the row is
\* recorded as failed_to_download only in the latter case, with that text.
C5_RetryLoop ==
    \A k \in Keys :
        /\ Len(hist[k]) <= retries + 1
        /\ requests[k] <= retries + 1
        /\ \A j \in Indices(hist[k]) : hist[k][j] = "body" => j = Len(hist[k])
        /\ \A i \in OutcomesOf(put_log, k) :
               IF \E j \in Indices(hist[k]) : hist[k][j] = "body"
               THEN /\ put_log[i].img_stream # None
                    /\ put_log[i].error_message = None
               ELSE /\ Len(hist[k]) = retries + 1
                    /\ put_log[i].img_stream = None
                    /\ put_log[i].error_message = ErrText(retries + 1)
        /\ \A i \in RecordsOf(k) :
               IF \E j \in Indices(hist[k]) : hist[k][j] = "body"
               THEN written[i].status # "failed_to_download"
               ELSE /\ written[i].status = "failed_to_download"
                    /\ written[i].error_message = ErrText(Len(hist[k]))

\* retries = 2: one row fails twice then succeeds, the other fails three times.
C5_Witness ==
    /\ retries = 2
    /\ count = 2
    /\ hist[0] = <<"error", "error", "body">>
    /\ hist[1] = <<"error", "error", "error">>
    /\ \E i \in RecordsOf(0) : written[i].status = "success"
    /\ \E i \in RecordsOf(1) : written[i].error_message = "error 3"

C6_SentinelLast ==
    /\ Cardinality(SentinelsIn(put_log)) <= 1
    /\ \A i \in SentinelsIn(put_log) :
           /\ i = count + 1
           /\ \A k \in Keys : Cardinality(OutcomesOf(put_log, k)) = 1
    /\ save_pc = "done" =>
           /\ Len(got_log) = count + 1
           /\ SentinelsIn(got_log) = {count + 1}
           /\ queue = <<>>

ConsumerStopped ==
    save_pc = "done" =>
        UNCHANGED <<got_log, written, successes, failed_to_download,
                    failed_to_resize, status_dict, unfinished>>

\* C6: the sentinel is enqueued once, after the outcome of every row; the
\* consumer has dequeued exactly N real outcomes when it dequeues the
\* sentinel, and after that it dequeues, tallies and writes nothing.
C6_SentinelProtocol == []C6_SentinelLast /\ [][ConsumerStopped]_vars

\* The consumer has stopped after two outcomes that arrived out of row order.
C6_Witness ==
    /\ save_pc = "done"
    /\ thread_count = 2
    /\ Len(got_log) = 3
    /\ got_log[1].key = 1
    /\ got_log[2].key = 0

RealGot == {i \in Indices(got_log) : ~IsSentinel(got_log[i])}

WrittenAs(status) == {i \in Indices(written) : written[i].status = status}

\* C7: without an unexpected per-item exception every processed outcome is
\* in exactly one of the three tallies (download error, resizer error,
\* otherwise success) and once in the Status Counter, and the stats emitted
\* for N rows carry count N and tallies that sum to N.
C7_Tallies ==
    exc_keys = {} =>
        /\ failed_to_download =
               Cardinality({i \in RealGot : got_log[i].error_message # None})
        /\ failed_to_download = Cardinality(WrittenAs("failed_to_download"))
        /\ failed_to_resize = Cardinality(WrittenAs("failed_to_resize"))
        /\ successes = Cardinality(WrittenAs("success"))
        /\ successes + failed_to_download + failed_to_resize = Cardinality(RealGot)
        /\ status_dict["success"] = successes
        /\ status_dict["resize_error"] = failed_to_resize
        /\ SumOver(status_dict, ErrTexts) = failed_to_download
        /\ \A i \in Indices(stats) :
               /\ stats[i].count = count
               /\ stats[i].successes + stats[i].failed_to_download
                      + stats[i].failed_to_resize = count
               /\ SumOver(stats[i].status_dict, StatusLabels) = count

\* Stats of a two-row shard with one success and one resize failure.
C7_Witness ==
    /\ Len(stats) = 1
    /\ exc_keys = {}
    /\ stats[1].count = 2
    /\ stats[1].successes = 1
    /\ stats[1].failed_to_resize = 1

C8_RemovedOnlyAfterClose ==
    /\ ~shard_exists =>
           (writer_state = "closed" /\ Len(stats) = 1 /\ shard_error = "none")
    /\ shard_error \in {"unreadable", "no_url_column", "writer", "close", "stats"}
           => shard_exists
    /\ writes_after_close = 0

NoWriteAfterClose == writer_state = "closed" => UNCHANGED written

\* C8: the shard source is removed only after the writer's close returned
\* and the stats were emitted; a run in which the close or the stats
\* emission raises never removes it; nothing is written after the close.
C8_CleanupOrder == []C8_RemovedOnlyAfterClose /\ [][NoWriteAfterClose]_vars

\* The source of a fully written two-row shard has been removed.
C8_Witness ==
    /\ ~shard_exists
    /\ count = 2
    /\ Len(written) = 2
    /\ writer_state = "closed"

\* C9: the call never raises; it returns (True, row) exactly when no
\* exception left the shard run and (False, row) otherwise, with the row
\* it was given; exceptions and failures inside items do not fail the shard.
C9_CallOutcome ==
    /\ call_state # "propagated"
    /\ call_state = "returned" =>
           /\ call_value.row = ShardRow
           /\ call_value.ok <=> shard_error = "none"
           /\ call_value.ok => (phase = "finished" /\ ~shard_exists)

\* A shard reported as done although one item raised and another failed
\* to download.
C9_Witness ==
    /\ call_state = "returned"
    /\ call_value.ok
    /\ exc_keys # {}
    /\ failed_to_download = 1
    /\ Len(written) = 1

\* The call of compute_key respects the widths: the shard id and the local
\* key fit in their digits.
WidthsSufficient(shard, key) ==
    /\ shard < Pow10(oom_shard_count)
    /\ key < Pow10(oom_sample_per_shard)

RECURSIVE DigitsValue(_)
DigitsValue(str) ==
    IF str = <<>> THEN 0
    ELSE 10 * DigitsValue(SubSeq(str, 1, Len(str) - 1)) + str[Len(str)]

\* What holds of every key computed within sufficient widths, but for its length.
KeyWellFormed ==
    (key_call.done /\ WidthsSufficient(key_call.shard, key_call.local_key)) =>
        /\ \A i \in Indices(key_call.str_key) : key_call.str_key[i] \in 0 .. 9
        /\ DigitsValue(key_call.str_key) =
               Pow10(oom_sample_per_shard) * key_call.shard + key_call.local_key
        /\ \A shard \in 0 .. MaxShardId, key \in 0 .. MaxLocalKey :
               (/\ WidthsSufficient(shard, key)
                /\ <<shard, key>> # <<key_call.shard, key_call.local_key>>)
               => compute_key(key, shard, oom_sample_per_shard, oom_shard_count)
                      # key_call.str_key

WidthDerivedSufficient ==
    \A key \in 0 .. (number_sample_per_shard - 1) : key < Pow10(oom_sample_per_shard)

\* C10 (as stated): within sufficient widths the key is exactly
\* per-shard width + shard-count width characters long, zero-padded and
\* unique, and the derived per-shard width holds every local key.
C10_KeyExactWidth ==
    /\ KeyWellFormed
    /\ WidthDerivedSufficient
    /\ (key_call.done /\ WidthsSufficient(key_call.shard, key_call.local_key)) =>
           Len(key_call.str_key) = oom_sample_per_shard + oom_shard_count

\* C10 (amended): the same, the key being at least one character long: with
\* both widths 0 the only key is "0".
C10_KeyWidth ==
    /\ KeyWellFormed
    /\ WidthDerivedSufficient
    /\ (key_call.done /\ WidthsSufficient(key_call.shard, key_call.local_key)) =>
           Len(key_call.str_key) = Max(1, oom_sample_per_shard + oom_shard_count)

\* Shard 1, local key 5, eleven samples per shard: the key 105.
C10_Witness ==
    /\ key_call.done
    /\ number_sample_per_shard = 11
    /\ oom_shard_count = 1
    /\ key_call.shard = 1
    /\ key_call.local_key = 5
    /\ key_call.str_key = <<1, 0, 5>>

\* The matching rule with the header token trimmed as well as lower-cased.
TrimmedValueMatches(values, token, disallowed) ==
    LET parts == SplitOnce(values, ":")
        pieces == SplitAll(parts[Len(parts)], ",")
        directives == {LowerStr(Strip(pieces[i])) : i \in 1 .. Len(pieces)}
    IN  /\ Len(parts) = 1 \/ LowerStr(Strip(parts[1])) = token
        /\ directives \cap disallowed # {}

\* C11: is_disallowed returns true exactly when some value of the header,
\* split on its first colon into an optional token and a comma-separated
\* directive list with the token and every directive trimmed and
\* lower-cased, has (token absent or equal to the configured token) and a
\* directive in the configured disallowed set.
C11_TrimmedTokenMatches ==
    robots_call.done =>
        (robots_call.result <=>
            \E i \in 1 .. Len(robots_call.headers) :
                TrimmedValueMatches(robots_call.headers[i], user_agent_token,
                                    disallowed_header_directives))

RealPut == {i \in Indices(put_log) : ~IsSentinel(put_log[i])}

C12_OneOutcomeEach ==
    /\ \A k \in Keys :
           /\ Cardinality(OutcomesOf(put_log, k)) =
                  (IF fetch_pc[k] = "done" THEN 1 ELSE 0)
           /\ \A i \in OutcomesOf(put_log, k) : put_log[i] = result[k]
    /\ \A i \in RealPut : put_log[i].key \in Keys
    /\ download_pc # "new" => thread_count - sem_value = Cardinality(Fetching)
    /\ (download_pc # "new" /\ GatherDone) =>
           /\ sem_value = thread_count
           /\ Cardinality(RealPut) = count

PutThenRelease ==
    \A k \in Keys :
        (fetch_pc[k] = "fetching" /\ fetch_pc'[k] = "done") =>
            /\ put_log' = Append(put_log, result'[k])
            /\ result'[k].key = k
            /\ sem_value' = sem_value + 1

\* C12: every admitted fetcher, whether it ends in success or failure,
\* enqueues exactly one outcome with its own row's key and then releases
\* its slot; when all fetchers have completed no slot is held and the
\* queue has received exactly one outcome per row.
C12_OutcomeAndSlot == []C12_OneOutcomeEach /\ [][PutThenRelease]_vars

\* Both fetchers of a two-row shard are over, one with a payload and one
\* with a failure after its last attempt.
C12_Witness ==
    /\ count = 2
    /\ download_pc = "gather"
    /\ GatherDone
    /\ sem_value = thread_count
    /\ \E i, j \in RealPut :
           put_log[i].img_stream # None /\ put_log[j].img_stream = None

\* C13: every non-sentinel item the consumer dequeues carries exactly one
\* of payload and error description: never both absent, never both
\* present, whatever the attempts ended as (policy rejection and an error
\* whose description is the empty string included).
C13_ExactlyOne ==
    \A i \in RealGot :
        /\ (got_log[i].img_stream # None) # (got_log[i].error_message # None)
        /\ got_log[i] # NoResult

\* The consumer has dequeued the outcome of a row whose first attempt was
\* rejected by the policy and whose second raised an error with an empty
\* description.
C13_Witness ==
    /\ <<"b">> \in disallowed_header_directives
    /\ \E k \in Keys :
           /\ hist[k] = <<"tagged_all", "empty_error">>
           /\ \E i \in RealGot :
                  got_log[i].key = k /\ got_log[i].error_message = ""

TalliesSum == successes + failed_to_download + failed_to_resize

\* The step is one in which the except clause of line 310 ran.
CaughtStep == exc_faults' # exc_faults

AckedAndContinued ==
    /\ got_log' = Append(got_log, Head(queue))
    /\ unfinished' = unfinished - 1
    /\ save_pc' = "loop"

\* C14 as stated: whatever raised the exception caught while an item is
\* processed, none of the three tallies has been incremented for the item,
\* and the consumer acknowledges it and continues.
C14_CaughtNeverTallied ==
    [][CaughtStep =>
          /\ successes' = successes
          /\ failed_to_download' = failed_to_download
          /\ failed_to_resize' = failed_to_resize
          /\ AckedAndContinued]_vars

\* C14, amended: an item whose processing raised is acknowledged, skipped
\* and not written; no tally counts it when the exception came from the
\* metadata lines or the resizer, and the tally of its branch has already
\* counted it when it came from the Status Counter, the hash or the write.
C14_CaughtTalliedByOrigin ==
    [][CaughtStep =>
          \E f \in Faults :
              /\ exc_faults' = exc_faults \cup {<<Head(queue).key, f>>}
              /\ IF f \in {"meta", "resizer"}
                 THEN /\ successes' = successes
                      /\ failed_to_download' = failed_to_download
                      /\ failed_to_resize' = failed_to_resize
                 ELSE /\ TalliesSum' = TalliesSum + 1
                      /\ failed_to_download' = failed_to_download +
                             (IF Head(queue).error_message # None THEN 1 ELSE 0)
                      /\ f = "hash" => successes' = successes + 1
              /\ written' = written
              /\ AckedAndContinued]_vars

\* The loop is over a two-row shard: the resizer raised on one row, which
\* no tally counts, and the Status Counter on the other, which one does.
C14_Witness ==
    /\ save_pc = "done"
    /\ exc_faults = {<<0, "resizer">>, <<1, "increment">>}
    /\ TalliesSum = 1
    /\ written = <<>>

\* C15: the payload stream of every dequeued outcome that carries one is
\* closed when the consumer has finished with the item, on the
\* resize-failure, success and caught-exception paths alike; an outcome
\* without a payload has no stream to close; at shard end no stream opened
\* by a fetcher is still open.
C15_StreamsReleased ==
    /\ \A i \in RealGot :
           IF got_log[i].img_stream # None
           THEN streams[got_log[i].key] = "closed"
           ELSE streams[got_log[i].key] = "none"
    /\ phase \in {"closed", "stats", "finished"} =>
           \A k \in Keys : streams[k] # "open"

\* C16: the shard source is removed only in a state where every row has
\* been processed by the consumer and a record of it has been handed to
\* the writer.
C16_RemovedOnlyWhenAllWritten ==
    ~shard_exists =>
        \A k \in Keys :
            /\ OutcomesOf(got_log, k) # {}
            /\ RecordsOf(k) # {}

\* The position in the consumer's log of the outcome a record was made from.
GotPos(rec) ==
    CHOOSE p \in RealGot : rec.row = sample_data(got_log[p].key)

\* C17: outcomes reach the consumer, and records the writer, in the order
\* in which the fetchers enqueued them, whatever permutation of the rows
\* that is; the record written for an outcome with local key k carries
\* row k's values and the key computed from k.
C17_ArrivalOrder ==
    /\ put_log = got_log \o queue
    /\ \A i \in Indices(written) :
           \E p \in RealGot :
               /\ written[i].row = sample_data(got_log[p].key)
               /\ written[i].key = compute_key(got_log[p].key, shard_id,
                                               oom_sample_per_shard, oom_shard_count)
    /\ \A i, j \in Indices(written) :
           i < j => GotPos(written[i]) < GotPos(written[j])

\* Row 1 completed before row 0 and both records are written, in that order.
C17_Witness ==
    /\ Len(written) = 2
    /\ put_log[1].key = 1
    /\ put_log[2].key = 0
    /\ written[1].row = sample_data(1)
    /\ written[1].key = <<1, 1>>
    /\ written[2].row = sample_data(0)
    /\ written[2].key = <<1, 0>>

\* The attempts of row k that ended in a policy rejection.
RejectedAttempts(k) ==
    {j \in Indices(hist[k]) :
         Rejected(hist[k][j], user_agent_token, disallowed_header_directives)}

\* C18: with a directive set configured, an attempt whose headers the
\* filter matches fails with the fixed message and reads no body; the retry
\* loop goes on as after any failure, up to retries + 1 attempts; a row
\* whose last attempt is rejected is recorded as failed_to_download with
\* the fixed message.  With no directive set (None or empty) the filter is
\* never called and no outcome carries the message.
C18_PolicyRejection ==
    /\ \A k \in Keys :
           /\ Len(hist[k]) <= retries + 1
           /\ body_reads[k] + Cardinality(RejectedAttempts(k)) <= Len(hist[k])
           /\ Len(hist[k]) \in RejectedAttempts(k) =>
                  /\ result[k] = [key |-> k, img_stream |-> None,
                                  error_message |-> PolicyMessage]
                  /\ fetch_pc[k] = "done" <=> Len(hist[k]) = retries + 1
                  /\ \A i \in RecordsOf(k) :
                         /\ written[i].status = "failed_to_download"
                         /\ written[i].error_message = PolicyMessage
                         /\ written[i].img = None
                         /\ status_dict[PolicyMessage] >= 1
                         /\ failed_to_download >= 1
           /\ \A i \in OutcomesOf(put_log, k) :
                  put_log[i].error_message = PolicyMessage <=>
                      Len(hist[k]) \in RejectedAttempts(k)
    /\ disallowed_header_directives \in {NoDirectives, {}} =>
           /\ \A k \in Keys : consulted[k] = 0 /\ RejectedAttempts(k) = {}
           /\ \A i \in Indices(put_log) : put_log[i].error_message # PolicyMessage

\* Both attempts of the only row were rejected for the configured bot; the
\* row is recorded as a download failure and the shard run is over.
C18_Witness ==
    /\ phase = "finished"
    /\ retries = 1
    /\ count = 1
    /\ user_agent_token = <<"a">>
    /\ hist[0] = <<"tagged", "tagged">>
    /\ consulted[0] = 2
    /\ body_reads[0] = 0
    /\ Len(written) = 1
    /\ written[1].error_message = PolicyMessage
    /\ failed_to_download = 1

\* The call's combined integer has more digits than the two widths allow.
Overflows ==
    /\ key_call.done
    /\ Len(Digits(Pow10(oom_sample_per_shard) * key_call.shard + key_call.local_key))
           > oom_sample_per_shard + oom_shard_count

\* C19 as stated: when the combined integer has more digits than the total
\* width, the key is truncated to exactly the total width.
C19_Truncated ==
    Overflows => Len(key_call.str_key) = oom_sample_per_shard + oom_shard_count

\* C19, amended: when the combined integer has more digits than the total
\* width, the key is widened: it is the integer's full decimal form, longer
\* than the total width, with no digit dropped.
C19_Widened ==
    Overflows =>
        /\ key_call.str_key =
               Digits(Pow10(oom_sample_per_shard) * key_call.shard + key_call.local_key)
        /\ Len(key_call.str_key) > oom_sample_per_shard + oom_shard_count
        /\ DigitsValue(key_call.str_key) =
               Pow10(oom_sample_per_shard) * key_call.shard + key_call.local_key

\* Shard 11 with one digit for the shard: key 5 comes out as "115".
C19_Witness ==
    /\ Overflows
    /\ oom_sample_per_shard = 1
    /\ oom_shard_count = 1
    /\ key_call.shard = 11
    /\ key_call.local_key = 5
    /\ key_call.str_key = <<1, 1, 5>>

\* C20: every non-sentinel item the consumer dequeues is acknowledged
\* exactly once on every path through the loop body, acknowledgments never
\* exceed the items enqueued, and when the loop exits the unacknowledged
\* count is the number of enqueued items that did not go through the loop
\* body (the sentinel).
C20_AckAccounting ==
    /\ unfinished = Len(put_log) - Cardinality(RealGot)
    /\ Cardinality(RealGot) <= Len(put_log)
    /\ unfinished >= 0
    /\ save_pc = "done" =>
           /\ unfinished = Len(queue) + Cardinality(SentinelsIn(got_log))
           /\ unfinished = 1

\* The loop has exited after a download failure that was written and a
\* payload whose processing raised: both acknowledged, the sentinel not.
C20_Witness ==
    /\ save_pc = "done"
    /\ count = 2
    /\ Len(put_log) = 3
    /\ unfinished = 1
    /\ Cardinality(WrittenAs("failed_to_download")) = 1
    /\ \E k \in Keys : <<k, "resizer">> \in exc_faults

====
